---- MODULE Spec2Model ----
(***************************************************************************)
(* Model of jpeglib's DCT-domain JPEG object (jpeglib/dct_jpeg.py):        *)
(* class DCTJPEG (lazy accessors Y, Cb, Cr, qt; read_dct; write_dct; free) *)
(* and class DCTJPEGio (layout conversion to and from the jpegio format).  *)
(*                                                                         *)
(* numpy arrays are modelled by value: a record with the shape and the     *)
(* elements in C (row-major) order.  The native bridges (CJpegLib) and the *)
(* construction of the object live outside dct_jpeg.py and are modelled    *)
(* from their interface.                                                   *)
(***************************************************************************)
EXTENDS Integers, Sequences, FiniteSets, TLC

\* ------------------------------------------------------------------------
\* Bounds of the model
\* ------------------------------------------------------------------------
\* number of operations the caller performs on one object
MaxOps == 3
\* number of distinct source files (decoded contents) an object is opened on
MaxSeed == 1
\* largest block grid of the tensors given to the layout converter
MaxBlocksH == 2
MaxBlocksW == 3

\* ------------------------------------------------------------------------
\* Program constants
\* ------------------------------------------------------------------------
\* side of a DCT block: the literal 8 of reshape((...,8,8))
BlockSide == 8
\* coefficients per block: the literal 64 of ctypes.c_short * 64
BlockLen == 64
\* number of quantization tables the decode bridge fills
NumQt == 4

\* ------------------------------------------------------------------------
\* numpy arrays by value
\* ------------------------------------------------------------------------
RECURSIVE Prod(_)
Prod(s) == IF s = <<>> THEN 1 ELSE Head(s) * Prod(Tail(s))

\* number of elements of an array of the given shape
Size(shape) == Prod(shape)

\* C-order stride of axis i (1-based) in an array of the given shape
Stride(shape, i) == Prod(SubSeq(shape, i + 1, Len(shape)))

\* multi-index (0-based components) of the C-order position p (0-based)
Unravel(p, shape) ==
    [i \in 1..Len(shape) |-> (p \div Stride(shape, i)) % shape[i]]

RECURSIVE RavelFrom(_, _, _)
RavelFrom(idx, shape, i) ==
    IF i > Len(shape) THEN 0
    ELSE idx[i] * Stride(shape, i) + RavelFrom(idx, shape, i + 1)

\* C-order position (0-based) of a multi-index
Ravel(idx, shape) == RavelFrom(idx, shape, 1)

\* the Python value None, and an attribute removed with del
None == [kind |-> "None", shape |-> <<>>, data |-> <<>>]
Deleted == [kind |-> "deleted", shape |-> <<>>, data |-> <<>>]

NDArray(shape, data) == [kind |-> "ndarray", shape |-> shape, data |-> data]

IsArray(a) == a.kind = "ndarray"

\* element of a at a 0-based multi-index
At(a, idx) == a.data[Ravel(idx, a.shape) + 1]

\* ndarray.astype(np.int8): wrap to 8 bits (used only as a faulty variant)
astype_int8(a) ==
    NDArray(a.shape, [p \in 1..Len(a.data) |-> ((a.data[p] + 128) % 256) - 128])

\* ndarray.astype(np.int16): wrap to 16 bits, two's complement
astype_int16(a) ==
    LET d == a.data
    IN NDArray(a.shape,
               [p \in 1..Len(d) |-> ((d[p] + 32768) % 65536) - 32768])

\* ndarray.astype(np.int32): the elements of the arrays converted are 16-bit
\* or caller-supplied values within the 32-bit range, which the cast keeps
astype_int32(a) ==
    NDArray(a.shape, [p \in 1..Len(a.data) |-> a.data[p]])

\* ndarray.reshape(newshape): same elements in C order, new shape
reshape(a, newshape) == NDArray(newshape, a.data)

\* ndarray.transpose(axes), axes 0-based as in numpy:
\* result.shape[n] = a.shape[axes[n]], result[i] = a[j] with j[axes[n]] = i[n]
transpose(a, axes) ==
    LET newshape == [n \in 1..Len(axes) |-> a.shape[axes[n] + 1]]
        src(p) ==
            LET i == Unravel(p, newshape)
                j == [k \in 1..Len(axes) |->
                        i[CHOOSE n \in 1..Len(axes) : axes[n] + 1 = k]]
            IN Ravel(j, a.shape)
    IN NDArray(newshape, [p \in 1..Len(a.data) |-> a.data[src(p - 1) + 1]])

\* faulty variant: no crop
bad_slice_first(a, n) == a

\* a[:n] along the first axis
slice_first(a, n) ==
    LET m == IF n < a.shape[1] THEN n ELSE a.shape[1]
        newshape == <<m>> \o Tail(a.shape)
    IN NDArray(newshape, SubSeq(a.data, 1, Size(newshape)))

\* ------------------------------------------------------------------------
\* Layout converter (class DCTJPEGio)
\* ------------------------------------------------------------------------
\* faulty variant: interleaves the blocks without the in-block transposition
bad_convert_dct_jpegio(dct) ==
    astype_int32(
        reshape(transpose(dct, <<0, 2, 1, 3>>),
                <<dct.shape[1] * dct.shape[3], dct.shape[2] * dct.shape[4]>>))

\* DCTJPEGio._convert_dct_jpegio: native (bh, bw, 8, 8) to flat (bh*8, bw*8)
convert_dct_jpegio(dct) ==
    astype_int32(
        reshape(transpose(dct, <<0, 3, 1, 2>>),
                <<dct.shape[1] * dct.shape[3], dct.shape[2] * dct.shape[4]>>))

\* faulty variant: tiles the flat array without the in-block transposition
bad_convert_jpegio_dct(dct) ==
    LET w == dct.shape[2] \div BlockSide
        h == Size(dct.shape) \div (BlockSide * w * BlockSide)
    IN astype_int16(
           transpose(reshape(dct, <<h, BlockSide, w, BlockSide>>),
                     <<0, 2, 1, 3>>))

\* DCTJPEGio._convert_jpegio_dct: flat (bh*8, bw*8) to native (bh, bw, 8, 8);
\* the -1 of reshape((-1,8,w//8,8)) is the dimension numpy infers
convert_jpegio_dct(dct) ==
    LET w == dct.shape[2] \div BlockSide
        h == Size(dct.shape) \div (BlockSide * w * BlockSide)
    IN astype_int16(
           transpose(reshape(dct, <<h, BlockSide, w, BlockSide>>),
                     <<0, 2, 3, 1>>))

\* ------------------------------------------------------------------------
\* State
\* ------------------------------------------------------------------------
VARIABLES
    has_chrominance, \* self.has_chrominance: colour (3 components) or grayscale
    content,         \* self.content: the source file the object was opened on
    _Y, _Cb, _Cr, _qt, \* the attributes behind the properties Y, Cb, Cr, qt
    files,           \* the file system: path -> file
    lastOp,          \* the operation the caller performed last and its result
    encArgs,         \* the arguments of the last call of the encode bridge
    nops,            \* number of operations performed
    decodeCalls,     \* number of calls of the decode bridge
    encodeCalls,     \* number of calls of the encode bridge
    callerSet,       \* per field, the tensor the caller assigned last
    onlyReads,       \* the caller has performed accessor reads only
    scratch,         \* the scratch files the last operation created
    cv_in, cv_mid, cv_out, cv_pc, \* layout converter: input, results, position
    io,              \* the DCTJPEGio object made by to_jpegio, if any
    ver_active,      \* version selector: the active libjpeg version
    ver_scopes,      \* version selector: the scopes entered and not yet left
    ver_entered,     \* per scope entered, the version active at its entry
    ver_last         \* version selector: the last operation on it

objVars == <<has_chrominance, content, _Y, _Cb, _Cr, _qt, files, lastOp,
             encArgs, nops, decodeCalls, encodeCalls, callerSet, onlyReads,
             scratch>>
cvVars == <<cv_in, cv_mid, cv_out, cv_pc>>
ioVars == <<io>>
verVars == <<ver_active, ver_scopes, ver_entered, ver_last>>
vars == <<has_chrominance, content, _Y, _Cb, _Cr, _qt, files, lastOp,
          encArgs, nops, decodeCalls, encodeCalls, callerSet, onlyReads,
          scratch, cv_in, cv_mid, cv_out, cv_pc, io,
          ver_active, ver_scopes, ver_entered, ver_last>>

Fields == {"Y", "Cb", "Cr", "qt"}

\* ------------------------------------------------------------------------
\* Geometry of the image the object is opened on (class JPEG)
\* ------------------------------------------------------------------------
\* pixel dimensions of the image
ImageWidth == 15
ImageHeight == 8
\* sampling factors of the components Y, Cb, Cr (chrominance halved
\* horizontally)
SampH == <<2, 1, 1>>
SampV == <<1, 1, 1>>

CeilDiv(a, b) == (a + b - 1) \div b

\* self.num_components
num_components == IF has_chrominance THEN 3 ELSE 1

\* JPEG.height_in_blocks(i), JPEG.width_in_blocks(i), i = 0, 1, 2
SeqMax(s) == CHOOSE m \in {s[k] : k \in 1..Len(s)} : \A k \in 1..Len(s) : s[k] <= m

height_in_blocks(i) ==
    CeilDiv(CeilDiv(ImageHeight * SampV[i + 1], SeqMax(SampV)), BlockSide)
width_in_blocks(i) ==
    CeilDiv(CeilDiv(ImageWidth * SampH[i + 1], SeqMax(SampH)), BlockSide)

\* a zero-initialised ctypes array seen through np.ctypeslib.as_array
Zeros(shape) == NDArray(shape, [p \in 1..Size(shape) |-> 0])

\* DCTJPEG._alloc_dct_component: c_short[hb][wb][64]
alloc_dct_component(i) ==
    Zeros(<<height_in_blocks(i), width_in_blocks(i), BlockLen>>)

\* ------------------------------------------------------------------------
\* Files and the native bridges (CJpegLib)
\* ------------------------------------------------------------------------
NoFile == [exists |-> FALSE, Y |-> None, Cb |-> None, Cr |-> None, qt |-> None]

Wrap16(x) == ((x + 32768) % 65536) - 32768

\* the array a with the values base+1, base+2, ... wrapped to 16 bits
Fill(a, base) ==
    NDArray(a.shape, [p \in 1..Len(a.data) |-> Wrap16(base + p)])

\* the coefficients and tables stored in the source file number seed; the
\* coefficients run across the 16-bit boundary and differ at every position
SourceFile(seed, chroma) ==
    [exists |-> TRUE,
     Y  |-> Fill(alloc_dct_component(0), 32700 + 7 * seed),
     Cb |-> IF chroma THEN Fill(alloc_dct_component(1), 33700 + 7 * seed)
            ELSE None,
     Cr |-> IF chroma THEN Fill(alloc_dct_component(2), 34700 + 7 * seed)
            ELSE None,
     qt |-> NDArray(<<NumQt, BlockLen>>,
                    [p \in 1..(NumQt * BlockLen) |-> 1 + ((5 * seed + p) % 255)])]

\* CJpegLib.read_jpeg_dct: fills the allocated buffers Y, Cb, Cr (None when
\* not allocated) and qt from the scratch copy of the file
read_jpeg_dct(file, Y, Cb, Cr, qt) ==
    [Y  |-> NDArray(Y.shape, file.Y.data),
     Cb |-> IF IsArray(Cb) THEN NDArray(Cb.shape, file.Cb.data) ELSE None,
     Cr |-> IF IsArray(Cr) THEN NDArray(Cr.shape, file.Cr.data) ELSE None,
     qt |-> NDArray(qt.shape, file.qt.data)]

\* the tables libjpeg derives from a quality when none are supplied
QualityTables(quality) ==
    NDArray(<<NumQt, BlockLen>>,
            [p \in 1..(NumQt * BlockLen) |-> 1 + (((100 - quality) + p) % 255)])

\* CJpegLib.write_jpeg_dct: the file the encode bridge writes from its
\* arguments: the coefficients as given, the supplied tables (missing slots
\* zero) or the tables derived from the quality
write_jpeg_dct(Y, Cb, Cr, qt, quality) ==
    [exists |-> TRUE,
     Y  |-> Y,
     Cb |-> Cb,
     Cr |-> Cr,
     qt |-> IF IsArray(qt)
            THEN NDArray(<<NumQt, BlockLen>>,
                         qt.data
                            \o [p \in 1..(NumQt * BlockLen - Len(qt.data)) |-> 0])
            ELSE QualityTables(quality)]

\* ------------------------------------------------------------------------
\* class DCTJPEG.  The operations are functions of the attribute record
\* o = [Y, Cb, Cr, qt] (the values of _Y, _Cb, _Cr, _qt); each yields the
\* new attributes, the outcome ("ok" or the exception raised), the value
\* returned and the number of decode-bridge calls made.
\* ------------------------------------------------------------------------
Result(o, outcome, ret, decodes) ==
    [o |-> o, outcome |-> outcome, ret |-> ret, decodes |-> decodes]

\* process_component of read_dct: as_array, then reshape((*shape[:-1],8,8))
read_process_component(comp) ==
    reshape(comp,
            SubSeq(comp.shape, 1, Len(comp.shape) - 1)
                \o <<BlockSide, BlockSide>>)

\* faulty variant: allocates the chrominance buffers whatever the image
bad_bridge_buffers(file) ==
    read_jpeg_dct(file,
                  alloc_dct_component(0),
                  alloc_dct_component(1),
                  alloc_dct_component(2),
                  Zeros(<<NumQt, BlockLen>>))

\* the buffers read_dct allocates, as the decode bridge fills them from the
\* scratch copy of the given file
bridge_buffers(file) ==
    read_jpeg_dct(file,
                  alloc_dct_component(0),
                  IF has_chrominance THEN alloc_dct_component(1) ELSE None,
                  IF has_chrominance THEN alloc_dct_component(2) ELSE None,
                  Zeros(<<NumQt, BlockLen>>))

\* the fields read_dct stores from the filled buffers b: reshaped to 8x8
\* blocks, the tables cropped to the components
process_buffers(b) ==
    [Y  |-> read_process_component(b.Y),
     Cb |-> IF has_chrominance THEN read_process_component(b.Cb) ELSE None,
     Cr |-> IF has_chrominance THEN read_process_component(b.Cr) ELSE None,
     qt |-> slice_first(read_process_component(b.qt), num_components)]

decoded(file) == process_buffers(bridge_buffers(file))

\* the assignments of read_dct: self.Y and self.qt, self.Cb and self.Cr only
\* if self.has_chrominance
read_dct_store(o, d) ==
    [Y  |-> d.Y,
     Cb |-> IF has_chrominance THEN d.Cb ELSE o.Cb,
     Cr |-> IF has_chrominance THEN d.Cr ELSE o.Cr,
     qt |-> d.qt]

\* return self.Y,(self.Cb,self.Cr),self.qt: on a grayscale object the
\* getters of Cb and Cr read _Cb and _Cr, which free() may have deleted
read_dct_return(o1) ==
    IF o1.Cb = Deleted \/ o1.Cr = Deleted
    THEN Result(o1, "AttributeError", <<>>, 1)
    ELSE Result(o1, "ok", <<o1.Y, o1.Cb, o1.Cr, o1.qt>>, 1)

\* DCTJPEG.read_dct: allocate, call the decode bridge, store all fields,
\* return them through the accessors
read_dct(o) == read_dct_return(read_dct_store(o, decoded(content)))

\* return self._f after the read_dct call r of a getter
getter_return(r, f) ==
    IF r.outcome # "ok" THEN Result(r.o, r.outcome, <<>>, r.decodes)
    ELSE Result(r.o, "ok", <<r.o[f]>>, r.decodes)

\* faulty variant: decodes on every read of a lazily loaded field
bad_lazy_getter(o, f, lazy) ==
    IF o[f] = Deleted THEN Result(o, "AttributeError", <<>>, 0)
    ELSE IF lazy THEN getter_return(read_dct(o), f)
    ELSE Result(o, "ok", <<o[f]>>, 0)

\* the body shared by the four getters: lazy tells whether the field is
\* decoded when it is None; reading a deleted attribute raises
lazy_getter(o, f, lazy) ==
    IF o[f] = Deleted THEN Result(o, "AttributeError", <<>>, 0)
    ELSE IF lazy /\ o[f] = None THEN getter_return(read_dct(o), f)
    ELSE Result(o, "ok", <<o[f]>>, 0)

\* the getters of the properties Y, Cb, Cr, qt
Y_getter(o) == lazy_getter(o, "Y", TRUE)
Cb_getter(o) == lazy_getter(o, "Cb", has_chrominance)
Cr_getter(o) == lazy_getter(o, "Cr", has_chrominance)
qt_getter(o) == lazy_getter(o, "qt", TRUE)

getter(o, f) ==
    CASE f = "Y"  -> Y_getter(o)
      [] f = "Cb" -> Cb_getter(o)
      [] f = "Cr" -> Cr_getter(o)
      [] f = "qt" -> qt_getter(o)

\* the setters of the properties Y, Cb, Cr, qt
setter(o, f, v) == [o EXCEPT ![f] = v]

\* DCTJPEG.free: del _Y, _Cb, _Cr, _qt in this order; del of an attribute
\* that is not there raises AttributeError and the later ones stay
RECURSIVE del_from(_, _)
del_from(o, fs) ==
    IF fs = <<>> THEN Result(o, "ok", <<>>, 0)
    ELSE IF o[Head(fs)] = Deleted THEN Result(o, "AttributeError", <<>>, 0)
    ELSE del_from([o EXCEPT ![Head(fs)] = Deleted], Tail(fs))

free(o) == del_from(o, <<"Y", "Cb", "Cr", "qt">>)

\* self.path, and the values of the parameter path of write_dct
self_path == "input.jpeg"
PathNone == "None"
Paths == {PathNone, "output.jpeg", "/readonly/output.jpeg"}

\* the destinations the encode bridge can write
Writable(dstfile) == dstfile \in {self_path, "output.jpeg"}

\* the values of the parameter quality of write_dct
Qualities == {-2, -1, 100, 150}

\* process_component of write_dct: reshape((*shape[:-2],64)), astype(int16),
\* as_ctypes
write_process_component(comp) ==
    astype_int16(
        reshape(comp, SubSeq(comp.shape, 1, Len(comp.shape) - 2)
                          \o <<BlockLen>>))

\* quality in set(range(-1,101))
quality_in_range(quality) == quality \in -1..100

NoArgs == [Y |-> None, Cb |-> None, Cr |-> None, qt |-> None,
           quality |-> 0, dstfile |-> PathNone]

WriteResult(o, outcome, decodes, encoded, args) ==
    [o |-> o, outcome |-> outcome, ret |-> <<>>, decodes |-> decodes,
     encoded |-> encoded, args |-> args]

\* faulty variant: passes the tables to the bridge whatever the quality
bad_write_qt_arg(qt, quality) == qt

\* if quality != -1: qt = None
write_qt_arg(qt, quality) == IF quality # -1 THEN None ELSE qt

\* dstfile = path if path is not None else self.path
write_dstfile(path) == IF path # PathNone THEN path ELSE self_path

\* the assert on quality and the call of the encode bridge, which raises
\* when it cannot write the destination
write_call(o, d, qt, Y, Cb, Cr, path, quality) ==
    IF ~quality_in_range(quality)
    THEN WriteResult(o, "AssertionError", d, FALSE, NoArgs)
    ELSE WriteResult(o,
                     IF Writable(write_dstfile(path)) THEN "ok"
                     ELSE "CodecError",
                     d, TRUE,
                     [Y |-> Y, Cb |-> Cb, Cr |-> Cr,
                      qt |-> write_qt_arg(qt, quality),
                      quality |-> quality, dstfile |-> write_dstfile(path)])

\* Cr = process_component(self.Cr), r4 the result of the getter
write_Cr(r4, d, qt, Y, Cb, path, quality) ==
    IF r4.outcome # "ok"
    THEN WriteResult(r4.o, r4.outcome, d + r4.decodes, FALSE, NoArgs)
    ELSE write_call(r4.o, d + r4.decodes, qt, Y, Cb,
                    write_process_component(r4.ret[1]), path, quality)

\* Cb = process_component(self.Cb), r3 the result of the getter
write_Cb(r3, d, qt, Y, path, quality) ==
    IF r3.outcome # "ok"
    THEN WriteResult(r3.o, r3.outcome, d + r3.decodes, FALSE, NoArgs)
    ELSE write_Cr(Cr_getter(r3.o), d + r3.decodes, qt, Y,
                  write_process_component(r3.ret[1]), path, quality)

\* faulty variant: hands over the stored Cb and Cr of a grayscale object
bad_write_Y(r2, d, qt, path, quality) ==
    IF r2.outcome # "ok"
    THEN WriteResult(r2.o, r2.outcome, d + r2.decodes, FALSE, NoArgs)
    ELSE IF has_chrominance
    THEN write_Cb(Cb_getter(r2.o), d + r2.decodes, qt,
                  write_process_component(r2.ret[1]), path, quality)
    ELSE write_call(r2.o, d + r2.decodes, qt,
                    write_process_component(r2.ret[1]), r2.o.Cb, r2.o.Cr,
                    path, quality)

\* Y = process_component(self.Y), r2 the result of the getter; Cb and Cr
\* only if self.has_chrominance
write_Y(r2, d, qt, path, quality) ==
    IF r2.outcome # "ok"
    THEN WriteResult(r2.o, r2.outcome, d + r2.decodes, FALSE, NoArgs)
    ELSE IF has_chrominance
    THEN write_Cb(Cb_getter(r2.o), d + r2.decodes, qt,
                  write_process_component(r2.ret[1]), path, quality)
    ELSE write_call(r2.o, d + r2.decodes, qt,
                    write_process_component(r2.ret[1]), None, None,
                    path, quality)

\* qt = process_component(self.qt), r1 the result of the getter
write_qt(r1, path, quality) ==
    IF r1.outcome # "ok"
    THEN WriteResult(r1.o, r1.outcome, r1.decodes, FALSE, NoArgs)
    ELSE write_Y(Y_getter(r1.o), r1.decodes,
                 write_process_component(r1.ret[1]), path, quality)

\* DCTJPEG.write_dct: the statements in their order
write_dct(o, path, quality) == write_qt(qt_getter(o), path, quality)

\* ------------------------------------------------------------------------
\* class DCTJPEGio and to_jpegio.  A DCTJPEGio object has the attributes and
\* the accessors of DCTJPEG; the operators below take and yield its
\* attribute record like those of DCTJPEG.
\* ------------------------------------------------------------------------
\* a[i] along the first axis
index_first(a, i) ==
    LET sub == Tail(a.shape)
    IN NDArray(sub, SubSeq(a.data, i * Size(sub) + 1, (i + 1) * Size(sub)))

\* the failure of a step of an accessor: the getter's exception if it
\* raised, else the exception exc
io_fail(r, d, exc) ==
    Result(r.o, IF r.outcome # "ok" THEN r.outcome ELSE exc, <<>>,
           d + r.decodes)

\* self._convert_dct_jpegio(self.Cr), r3 the result of the getter; calling
\* .transpose on None raises AttributeError
coef_arrays_Cr(r3, d, Yc, Cbc) ==
    IF r3.outcome # "ok" \/ ~IsArray(r3.ret[1])
    THEN io_fail(r3, d, "AttributeError")
    ELSE Result(r3.o, "ok", <<Yc, Cbc, convert_dct_jpegio(r3.ret[1])>>,
                d + r3.decodes)

\* self._convert_dct_jpegio(self.Cb), r2 the result of the getter
coef_arrays_Cb(r2, d, Yc) ==
    IF r2.outcome # "ok" \/ ~IsArray(r2.ret[1])
    THEN io_fail(r2, d, "AttributeError")
    ELSE coef_arrays_Cr(Cr_getter(r2.o), d + r2.decodes, Yc,
                        convert_dct_jpegio(r2.ret[1]))

\* self._convert_dct_jpegio(self.Y), r1 the result of the getter
coef_arrays_Y(r1) ==
    IF r1.outcome # "ok" \/ ~IsArray(r1.ret[1])
    THEN io_fail(r1, 0, "AttributeError")
    ELSE coef_arrays_Cb(Cb_getter(r1.o), r1.decodes,
                        convert_dct_jpegio(r1.ret[1]))

\* the getter of DCTJPEGio.coef_arrays: the list of the three converted
\* components
coef_arrays(o) == coef_arrays_Y(Y_getter(o))

\* self.qt[1].astype(np.int32), r2 the result of the getter; an index past
\* the tables raises IndexError
quant_tables_1(r2, d, t0) ==
    IF r2.outcome # "ok" \/ r2.ret[1].shape[1] <= 1
    THEN io_fail(r2, d, "IndexError")
    ELSE Result(r2.o, "ok",
                <<t0, astype_int32(index_first(r2.ret[1], 1))>>,
                d + r2.decodes)

\* self.qt[0].astype(np.int32), r1 the result of the getter
quant_tables_0(r1) ==
    IF r1.outcome # "ok" \/ r1.ret[1].shape[1] <= 0
    THEN io_fail(r1, 0, "IndexError")
    ELSE quant_tables_1(qt_getter(r1.o), r1.decodes,
                        astype_int32(index_first(r1.ret[1], 0)))

\* the getter of DCTJPEGio.quant_tables: the list of the tables 0 and 1
quant_tables(o) == quant_tables_0(qt_getter(o))

\* faulty variant: writes like DCTJPEG.write_dct
bad_io_write(o, path, quality) == write_dct(o, path, quality)

\* DCTJPEGio.write: raise NotImplementedError
io_write(o, path, quality) ==
    WriteResult(o, "NotImplementedError", 0, FALSE, NoArgs)

\* getattr(jpeg, "qt"), r4 the result of the getter
to_jpegio_qt(r4, d, Y, Cb, Cr) ==
    IF r4.outcome # "ok" THEN io_fail(r4, d, "")
    ELSE Result(r4.o, "ok", <<Y, Cb, Cr, r4.ret[1]>>, d + r4.decodes)

\* getattr(jpeg, "Cr"), r3 the result of the getter
to_jpegio_Cr(r3, d, Y, Cb) ==
    IF r3.outcome # "ok" THEN io_fail(r3, d, "")
    ELSE to_jpegio_qt(qt_getter(r3.o), d + r3.decodes, Y, Cb, r3.ret[1])

\* getattr(jpeg, "Cb"), r2 the result of the getter
to_jpegio_Cb(r2, d, Y) ==
    IF r2.outcome # "ok" THEN io_fail(r2, d, "")
    ELSE to_jpegio_Cr(Cr_getter(r2.o), d + r2.decodes, Y, r2.ret[1])

\* getattr(jpeg, "Y"), r1 the result of the getter
to_jpegio_Y(r1) ==
    IF r1.outcome # "ok" THEN io_fail(r1, 0, "")
    ELSE to_jpegio_Cb(Cb_getter(r1.o), r1.decodes, r1.ret[1])

\* faulty variant: decodes the source anew before reading its fields
bad_to_jpegio(o) == to_jpegio_Y(getter_return(read_dct(o), "Y"))

\* to_jpegio: the values of the fields Y, Cb, Cr, qt of jpeg, read with
\* getattr in the order of the fields, for DCTJPEGio(**vals)
to_jpegio(o) == to_jpegio_Y(Y_getter(o))

\* ------------------------------------------------------------------------
\* Scratch files.  A scratch file is recorded with the calls made on it in
\* their order ("bridge" is the bridge call that is given its name) and with
\* what has become of it when the operation returns or raises: "closed"
\* (tmp.close() was executed, which removes the file), "dropped" (never
\* closed by the code; the local variable, its only reference, went away at
\* the return) or "held" (never closed by the code; the frame of the
\* propagating exception still refers to it).
\* ------------------------------------------------------------------------
\* the scratch file of one read_dct call: NamedTemporaryFile, write, flush,
\* CJpegLib.read_jpeg_dct(srcfile = tmp.name), close
read_dct_scratch ==
    [owner |-> "read_dct",
     events |-> <<"create", "write", "flush", "bridge", "close">>,
     end |-> "closed"]

\* the scratch file of one write_dct call: NamedTemporaryFile, write, and,
\* if the call gets that far, CJpegLib.write_jpeg_dct(srcfile = tmp.name)
write_dct_scratch(outcome, encoded) ==
    [owner |-> "write_dct",
     events |-> <<"create", "write">>
                    \o (IF encoded THEN <<"bridge">> ELSE <<>>),
     end |-> IF outcome = "ok" THEN "dropped" ELSE "held"]

\* the scratch files of the operation op with result r, in the order of
\* their creation: the one of write_dct itself, then one per read_dct call
Scratch(op, r) ==
    (IF op = "write_dct"
     THEN <<write_dct_scratch(r.outcome, r.encoded)>> ELSE <<>>)
        \o [i \in 1..r.decodes |-> read_dct_scratch]

\* ------------------------------------------------------------------------
\* The caller's operations on one object
\* ------------------------------------------------------------------------
\* the attribute record of the current state
obj == [Y |-> _Y, Cb |-> _Cb, Cr |-> _Cr, qt |-> _qt]

\* the tensor a caller assigns to a field: the shape of the decoded one,
\* 16-bit values that differ from the decoded ones at every position
CallerTensor(f) ==
    LET i == CASE f = "Y" -> 0 [] f = "Cb" -> 1 [] f = "Cr" -> 2 [] f = "qt" -> 3
        shape == IF f = "qt" THEN <<num_components, BlockSide, BlockSide>>
                 ELSE <<height_in_blocks(i), width_in_blocks(i),
                        BlockSide, BlockSide>>
    IN NDArray(shape, [p \in 1..Size(shape) |-> Wrap16(-32760 - 300 * i - p)])

\* the value a caller assigns to a field: None or a tensor
CallerValue(f, v) == IF v = "None" THEN None ELSE CallerTensor(f)

Op(op, field, r, encodes, quality) ==
    [op |-> op, field |-> field, outcome |-> r.outcome, ret |-> r.ret,
     decodes |-> r.decodes, encodes |-> encodes, quality |-> quality]

NoOp == [op |-> "init", field |-> "", outcome |-> "ok", ret |-> <<>>,
         decodes |-> 0, encodes |-> 0, quality |-> 0]

Store(o) ==
    /\ _Y' = o.Y
    /\ _Cb' = o.Cb
    /\ _Cr' = o.Cr
    /\ _qt' = o.qt

\* the fields a decode overwrites
Overwritten(f) == f \in {"Y", "qt"} \/ has_chrominance

\* the object as jpeglib.read_dct(path) constructs it on the source file
\* number seed: the tensors unset
ObjInit(chroma, seed) ==
    /\ has_chrominance = chroma
    /\ content = SourceFile(seed, chroma)
    /\ _Y = None
    /\ _Cb = None
    /\ _Cr = None
    /\ _qt = None
    /\ files = [p \in (Paths \ {PathNone}) \cup {self_path} |->
                   IF p = self_path THEN SourceFile(seed, chroma) ELSE NoFile]
    /\ lastOp = NoOp
    /\ encArgs = NoArgs
    /\ nops = 0
    /\ decodeCalls = 0
    /\ encodeCalls = 0
    /\ callerSet = [f \in Fields |-> None]
    /\ onlyReads = TRUE
    /\ scratch = <<>>

CvOff ==
    /\ cv_in = None
    /\ cv_mid = None
    /\ cv_out = None
    /\ cv_pc = 0

\* no DCTJPEGio object has been made
NoIo == [made |-> FALSE, Y |-> None, Cb |-> None, Cr |-> None, qt |-> None,
         coef_arrays |-> <<>>, quant_tables |-> <<>>]

IoOff == io = NoIo

\* the libjpeg versions of the version selector, and the one active when
\* nothing was selected
Versions == {"6b", "8d", "9d"}
DefaultVersion == "6b"

NoVerOp == [op |-> "init", scope |-> <<>>]

VerOff ==
    /\ ver_active = DefaultVersion
    /\ ver_scopes = <<>>
    /\ ver_entered = <<>>
    /\ ver_last = NoVerOp

Init ==
    /\ \E chroma \in BOOLEAN, seed \in 0..(MaxSeed - 1) : ObjInit(chroma, seed)
    /\ CvOff
    /\ IoOff
    /\ VerOff

\* the effect of a call with result r on the object and the counters
Effect(op, f, r, encodes, quality) ==
    /\ Store(r.o)
    /\ lastOp' = Op(op, f, r, encodes, quality)
    /\ decodeCalls' = decodeCalls + r.decodes
    /\ nops' = nops + 1
    /\ scratch' = Scratch(op, r)

\* the effect of the encode-bridge call, if any, of the write result r
BridgeEffect(r) ==
    /\ encodeCalls' = encodeCalls + (IF r.encoded THEN 1 ELSE 0)
    /\ encArgs' = IF r.encoded THEN r.args ELSE encArgs
    /\ files' = IF r.encoded /\ r.outcome = "ok"
                THEN [files EXCEPT ![r.args.dstfile] =
                         write_jpeg_dct(r.args.Y, r.args.Cb, r.args.Cr,
                                        r.args.qt, r.args.quality)]
                ELSE files

\* the effect of the write_dct result r
EncodeEffect(r, quality) ==
    /\ Effect("write_dct", "", r, IF r.encoded THEN 1 ELSE 0, quality)
    /\ BridgeEffect(r)

\* a read of the property f: jpeg.Y, jpeg.Cb, jpeg.Cr, jpeg.qt
Get(f) ==
    /\ nops < MaxOps
    /\ Effect("get", f, getter(obj, f), 0, 0)
    /\ UNCHANGED <<has_chrominance, content, files, encArgs, encodeCalls,
                   callerSet, onlyReads>>
    /\ UNCHANGED <<cvVars, ioVars, verVars>>

\* the effect of assigning the value val to the property f
SetEffect(f, val) ==
    /\ Effect("set", f, Result(setter(obj, f, val), "ok", <<>>, 0), 0, 0)
    /\ callerSet' = [callerSet EXCEPT ![f] = val]

\* an assignment to the property f: jpeg.Y = v, ...
Set(f, v) ==
    /\ nops < MaxOps
    /\ SetEffect(f, CallerValue(f, v))
    /\ onlyReads' = FALSE
    /\ UNCHANGED <<has_chrominance, content, files, encArgs, encodeCalls>>
    /\ UNCHANGED <<cvVars, ioVars, verVars>>

\* an explicit call jpeg.read_dct()
ReadDct ==
    /\ nops < MaxOps
    /\ Effect("read_dct", "", read_dct(obj), 0, 0)
    /\ callerSet' = [f \in Fields |->
                        IF Overwritten(f) THEN None ELSE callerSet[f]]
    /\ onlyReads' = FALSE
    /\ UNCHANGED <<has_chrominance, content, files, encArgs, encodeCalls>>
    /\ UNCHANGED <<cvVars, ioVars, verVars>>

\* a call jpeg.write_dct(path, quality)
WriteDct(path, quality) ==
    /\ nops < MaxOps
    /\ EncodeEffect(write_dct(obj, path, quality), quality)
    /\ onlyReads' = FALSE
    /\ UNCHANGED <<has_chrominance, content, callerSet>>
    /\ UNCHANGED <<cvVars, ioVars, verVars>>

\* a call jpeg.free()
Free ==
    /\ nops < MaxOps
    /\ Effect("free", "", free(obj), 0, 0)
    /\ callerSet' = [f \in Fields |-> None]
    /\ onlyReads' = FALSE
    /\ UNCHANGED <<has_chrominance, content, files, encArgs, encodeCalls>>
    /\ UNCHANGED <<cvVars, ioVars, verVars>>

Next ==
    \/ \E f \in Fields : Get(f)
    \/ \E f \in Fields : \E v \in {"None", "tensor"} : Set(f, v)
    \/ ReadDct
    \/ \E path \in Paths, quality \in Qualities : WriteDct(path, quality)
    \/ Free

Spec == Init /\ [][Next]_vars

\* the caller only reads the accessors and calls read_dct and write_dct
NextRW ==
    \/ \E f \in Fields : Get(f)
    \/ ReadDct
    \/ \E path \in Paths, quality \in Qualities : WriteDct(path, quality)

SpecRW == Init /\ [][NextRW]_vars

\* ------------------------------------------------------------------------
\* The layout converter applied to bounded inputs
\* ------------------------------------------------------------------------
\* number of distinct tensors per block grid given to the converter
MaxConvSeed == 4

\* a native tensor (bh, bw, 8, 8) of 16-bit values, all positions different
ConvNative(bh, bw, seed) ==
    NDArray(<<bh, bw, BlockSide, BlockSide>>,
            [p \in 1..(bh * bw * BlockLen) |-> Wrap16(32700 + 11 * seed + p)])

\* a flat array (bh*8, bw*8) of values representable in 16 bits
ConvFlat(bh, bw, seed) ==
    NDArray(<<bh * BlockSide, bw * BlockSide>>,
            [p \in 1..(bh * bw * BlockLen) |-> Wrap16(-32700 - 13 * seed - p)])

ConvInputs ==
    {ConvNative(bh, bw, seed) :
        bh \in 1..MaxBlocksH, bw \in 1..MaxBlocksW, seed \in 0..(MaxConvSeed - 1)}
    \cup
    {ConvFlat(bh, bw, seed) :
        bh \in 1..MaxBlocksH, bw \in 1..MaxBlocksW, seed \in 0..(MaxConvSeed - 1)}

\* the array the next conversion applies to
cv_cur == IF cv_pc = 0 THEN cv_in ELSE cv_mid

CvStore(a) ==
    /\ cv_pc' = cv_pc + 1
    /\ cv_mid' = IF cv_pc = 0 THEN a ELSE cv_mid
    /\ cv_out' = IF cv_pc = 0 THEN cv_out ELSE a
    /\ UNCHANGED cv_in

\* a call of _convert_dct_jpegio on a native tensor
ConvertDctJpegio ==
    /\ cv_pc < 2
    /\ Len(cv_cur.shape) = 4
    /\ CvStore(convert_dct_jpegio(cv_cur))
    /\ UNCHANGED <<objVars, ioVars, verVars>>

\* a call of _convert_jpegio_dct on a flat array
ConvertJpegioDct ==
    /\ cv_pc < 2
    /\ Len(cv_cur.shape) = 2
    /\ CvStore(convert_jpegio_dct(cv_cur))
    /\ UNCHANGED <<objVars, ioVars, verVars>>

InitConv ==
    /\ ObjInit(FALSE, 0)
    /\ cv_in \in ConvInputs
    /\ cv_mid = None
    /\ cv_out = None
    /\ cv_pc = 0
    /\ IoOff
    /\ VerOff

NextConv ==
    \/ ConvertDctJpegio
    \/ ConvertJpegioDct

SpecConv == InitConv /\ [][NextConv]_vars

\* ------------------------------------------------------------------------
\* The caller's operations with to_jpegio and the DCTJPEGio object
\* ------------------------------------------------------------------------
\* the attribute record of the DCTJPEGio object
io_obj == [Y |-> io.Y, Cb |-> io.Cb, Cr |-> io.Cr, qt |-> io.qt]

\* the list a caller assigns to coef_arrays
CallerCoefArrays == <<ConvFlat(1, 1, 0)>>

\* the effect on the DCTJPEGio object of a call with result r and the
\* interchange lists ca, qa
IoEffect(op, f, r, encodes, quality, ca, qa) ==
    /\ io' = [made |-> TRUE, Y |-> r.o.Y, Cb |-> r.o.Cb, Cr |-> r.o.Cr,
              qt |-> r.o.qt, coef_arrays |-> ca, quant_tables |-> qa]
    /\ lastOp' = Op(op, f, r, encodes, quality)
    /\ decodeCalls' = decodeCalls + r.decodes
    /\ nops' = nops + 1
    /\ scratch' = Scratch(op, r)
    /\ onlyReads' = FALSE
    /\ UNCHANGED <<has_chrominance, content, _Y, _Cb, _Cr, _qt, callerSet>>
    /\ UNCHANGED <<cvVars, verVars>>

\* a call jpeglib.to_jpegio(jpeg): reads the fields of jpeg through its
\* accessors and constructs the DCTJPEGio object from them
ToJpegioEffect(r) ==
    /\ Effect("to_jpegio", "", r, 0, 0)
    /\ io' = IF r.outcome = "ok"
             THEN [made |-> TRUE, Y |-> r.ret[1], Cb |-> r.ret[2],
                   Cr |-> r.ret[3], qt |-> r.ret[4],
                   coef_arrays |-> <<>>, quant_tables |-> <<>>]
             ELSE io

ToJpegio ==
    /\ nops < MaxOps
    /\ ToJpegioEffect(to_jpegio(obj))
    /\ onlyReads' = FALSE
    /\ UNCHANGED <<has_chrominance, content, files, encArgs, encodeCalls,
                   callerSet>>
    /\ UNCHANGED <<cvVars, verVars>>

\* a read of jpeg.coef_arrays on the DCTJPEGio object
CoefArraysEffect(r) ==
    IoEffect("coef_arrays", "", r, 0, 0,
             IF r.outcome = "ok" THEN r.ret ELSE io.coef_arrays,
             io.quant_tables)

CoefArrays ==
    /\ nops < MaxOps
    /\ io.made
    /\ CoefArraysEffect(coef_arrays(io_obj))
    /\ UNCHANGED <<files, encArgs, encodeCalls>>

\* a read of jpeg.quant_tables on the DCTJPEGio object
QuantTablesEffect(r) ==
    IoEffect("quant_tables", "", r, 0, 0, io.coef_arrays,
             IF r.outcome = "ok" THEN r.ret ELSE io.quant_tables)

QuantTables ==
    /\ nops < MaxOps
    /\ io.made
    /\ QuantTablesEffect(quant_tables(io_obj))
    /\ UNCHANGED <<files, encArgs, encodeCalls>>

\* an assignment to the field f of the DCTJPEGio object (inherited setter)
IoSet(f, v) ==
    /\ nops < MaxOps
    /\ io.made
    /\ IoEffect("io_set", f,
                Result(setter(io_obj, f, CallerValue(f, v)), "ok", <<>>, 0),
                0, 0, io.coef_arrays, io.quant_tables)
    /\ UNCHANGED <<files, encArgs, encodeCalls>>

\* an assignment jpeg.coef_arrays = list on the DCTJPEGio object
IoSetCoefArrays ==
    /\ nops < MaxOps
    /\ io.made
    /\ IoEffect("io_set", "coef_arrays", Result(io_obj, "ok", <<>>, 0),
                0, 0, CallerCoefArrays, io.quant_tables)
    /\ UNCHANGED <<files, encArgs, encodeCalls>>

\* a call jpeg.write(path, quality) on the DCTJPEGio object
IoWriteEffect(r, quality) ==
    /\ IoEffect("io_write", "", r, IF r.encoded THEN 1 ELSE 0, quality,
                io.coef_arrays, io.quant_tables)
    /\ BridgeEffect(r)

IoWrite(path, quality) ==
    /\ nops < MaxOps
    /\ io.made
    /\ IoWriteEffect(io_write(io_obj, path, quality), quality)

NextIo ==
    \/ \E f \in Fields : \E v \in {"None", "tensor"} : Set(f, v)
    \/ ReadDct
    \/ Free
    \/ ToJpegio
    \/ CoefArrays
    \/ QuantTables
    \/ \E f \in Fields : \E v \in {"None", "tensor"} : IoSet(f, v)
    \/ IoSetCoefArrays
    \/ \E path \in Paths, quality \in Qualities : IoWrite(path, quality)

SpecIo == Init /\ [][NextIo]_vars

\* ------------------------------------------------------------------------
\* The version selector (jpeglib.version): version.set(v), version.get() and
\* the scoped form "with jpeglib.version(v):"
\* ------------------------------------------------------------------------
\* deepest nesting of version scopes
MaxDepth == 3

\* the scope object made by jpeglib.version(v) when it is entered: it keeps
\* the version that was active and the version it selects
version_enter(active, v) == [prev |-> active, next |-> v]

\* faulty variant: leaving a scope goes back to the default version
bad_version_exit(scope) == DefaultVersion

\* the version made active when the scope is left
version_exit(scope) == scope.prev

\* jpeglib.version.set(v)
VersionSet(v) ==
    /\ ver_active' = v
    /\ ver_last' = [op |-> "set", scope |-> <<>>]
    /\ UNCHANGED <<ver_scopes, ver_entered>>
    /\ UNCHANGED <<objVars, cvVars, ioVars>>

\* entry of "with jpeglib.version(v):"
VersionEnter(v) ==
    /\ Len(ver_scopes) < MaxDepth
    /\ ver_scopes' = Append(ver_scopes, version_enter(ver_active, v))
    /\ ver_active' = v
    /\ ver_entered' = Append(ver_entered, ver_active)
    /\ ver_last' = [op |-> "enter", scope |-> version_enter(ver_active, v)]
    /\ UNCHANGED <<objVars, cvVars, ioVars>>

\* exit of the innermost "with jpeglib.version(v):"
VersionExit ==
    /\ ver_scopes # <<>>
    /\ ver_active' = version_exit(ver_scopes[Len(ver_scopes)])
    /\ ver_scopes' = SubSeq(ver_scopes, 1, Len(ver_scopes) - 1)
    /\ ver_entered' = SubSeq(ver_entered, 1, Len(ver_entered) - 1)
    /\ ver_last' = [op |-> "exit", scope |-> ver_scopes[Len(ver_scopes)]]
    /\ UNCHANGED <<objVars, cvVars, ioVars>>

InitVer ==
    /\ ObjInit(FALSE, 0)
    /\ CvOff
    /\ IoOff
    /\ VerOff

NextVer ==
    \/ \E v \in Versions : VersionSet(v)
    \/ \E v \in Versions : VersionEnter(v)
    \/ VersionExit

SpecVer == InitVer /\ [][NextVer]_vars

\* ------------------------------------------------------------------------
\* Properties of the DCT object (checked under Spec)
\* ------------------------------------------------------------------------
\* the step is the caller's operation op
Step(op) == nops' = nops + 1 /\ lastOp'.op = op

\* Y and qt, and Cb and Cr of a colour object, hold tensors
Materialized ==
    /\ IsArray(_Y)
    /\ IsArray(_qt)
    /\ has_chrominance => (IsArray(_Cb) /\ IsArray(_Cr))

\* no field holds a tensor assigned by the caller
Unedited == \A f \in Fields : callerSet[f] = None

\* C1: after the caller sets a field to a tensor, the field keeps the
\* caller's tensor until the caller sets it again, calls read_dct or calls
\* free; a lazy decode triggered by reading another, unset field does not
\* overwrite it.
C1_CallerValueKept ==
    \A f \in Fields : IsArray(callerSet[f]) => obj[f] = callerSet[f]

\* C2: round trip.  When write_dct with quality = -1 succeeds on an object
\* whose tensors come from the decode bridge and were not edited, the encode
\* bridge received, for every present component, the coefficients the decode
\* bridge produced at every block and position, and the decoded tables of
\* the components; decoding the written file gives the same coefficients as
\* decoding the source.
C2_RoundTrip ==
    (/\ lastOp.op = "write_dct"
     /\ lastOp.outcome = "ok"
     /\ lastOp.quality = -1
     /\ Unedited)
    => LET b == bridge_buffers(content)
           w == files[encArgs.dstfile]
       IN /\ encArgs.Y = b.Y
          /\ encArgs.Cb = b.Cb
          /\ encArgs.Cr = b.Cr
          /\ encArgs.qt.shape = <<num_components, BlockLen>>
          /\ \A t \in 0..(num_components - 1), k \in 0..(BlockLen - 1) :
                At(encArgs.qt, <<t, k>>) = At(b.qt, <<t, k>>)
          /\ w.exists
          /\ decoded(w).Y = decoded(content).Y
          /\ decoded(w).Cb = decoded(content).Cb
          /\ decoded(w).Cr = decoded(content).Cr

\* a colour object was decoded and then written unedited to a new file
C2_Witness ==
    /\ lastOp.op = "write_dct"
    /\ lastOp.outcome = "ok"
    /\ lastOp.quality = -1
    /\ Unedited
    /\ has_chrominance
    /\ encArgs.dstfile = "output.jpeg"
    /\ IsArray(encArgs.Cb)
    /\ decodeCalls = 1

C4_ReadDctCached ==
    [][(/\ lastOp.op = "read_dct"
        /\ lastOp.outcome = "ok"
        /\ Step("read_dct"))
       => (/\ lastOp'.ret = lastOp.ret
           /\ decodeCalls' = decodeCalls)]_vars

\* C5: write_dct with a quality outside [-1, 100] fails with the argument
\* error, the encode bridge is not called and no file is written.
C5_QualityRejected ==
    [][(Step("write_dct") /\ ~quality_in_range(lastOp'.quality))
       => (/\ lastOp'.outcome = "AssertionError"
           /\ encodeCalls' = encodeCalls
           /\ files' = files)]_vars

\* C6: write_dct with a quality outside [-1, 100] makes no bridge call,
\* decode or encode, before it fails, also when the tensors are unset.
C6_NoBridgeBeforeRejection ==
    [][(Step("write_dct") /\ ~quality_in_range(lastOp'.quality))
       => (/\ lastOp'.outcome # "ok"
           /\ decodeCalls' = decodeCalls
           /\ encodeCalls' = encodeCalls)]_vars

\* C7: write_dct leaves the stored Y, Cb, Cr and qt as they were, whatever
\* the prior state and the outcome.
C7_WriteKeepsObject ==
    [][Step("write_dct")
       => (_Y' = _Y /\ _Cb' = _Cb /\ _Cr' = _Cr /\ _qt' = _qt)]_vars

\* the tables the qt accessor yields to write_dct: the stored ones, or the
\* decoded ones when none are stored
CurrentQt == IF IsArray(_qt) THEN _qt ELSE decoded(content).qt

\* the table argument given holds the tables cur, flattened to 64 entries
SameTables(given, cur) ==
    /\ given.shape = <<cur.shape[1], BlockLen>>
    /\ \A t \in 0..(cur.shape[1] - 1),
          u \in 0..(BlockSide - 1), v \in 0..(BlockSide - 1) :
          At(given, <<t, BlockSide * u + v>>) = At(cur, <<t, u, v>>)

\* C8: in every encode-bridge call of write_dct the table argument is
\* absent exactly when quality # -1, and when quality = -1 it holds the
\* object's current quantization tables, table by table, entry by entry.
C8_QualityXorTables ==
    [][(Step("write_dct") /\ lastOp'.encodes = 1)
       => (/\ (encArgs'.qt = None) <=> (lastOp'.quality # -1)
           /\ encArgs'.quality = lastOp'.quality
           /\ lastOp'.quality = -1 => SameTables(encArgs'.qt, CurrentQt))]_vars

\* the encode bridge was called with a quality and without the tables the
\* caller had assigned
C8_Witness ==
    /\ lastOp.op = "write_dct"
    /\ lastOp.encodes = 1
    /\ lastOp.quality = 100
    /\ encArgs.qt = None
    /\ IsArray(callerSet["qt"])
    /\ _qt = callerSet["qt"]

\* C11: on a grayscale object, while the caller only reads the accessors
\* and calls read_dct and write_dct, Cb and Cr are never materialized: the
\* attributes stay None, read_dct allocates no buffer for them and gives the
\* decode bridge None, the encode bridge is given None, and a read of Cb or
\* Cr returns None without raising.
C11_GrayscaleNoChroma ==
    ~has_chrominance =>
        /\ _Cb = None
        /\ _Cr = None
        /\ decodeCalls > 0 => (/\ bridge_buffers(content).Cb = None
                                /\ bridge_buffers(content).Cr = None)
        /\ encodeCalls > 0 => (encArgs.Cb = None /\ encArgs.Cr = None)
        /\ (lastOp.op = "get" /\ lastOp.field \in {"Cb", "Cr"})
               => (lastOp.outcome = "ok" /\ lastOp.ret = <<None>>)
        /\ (lastOp.op = "read_dct")
               => (/\ lastOp.outcome = "ok"
                   /\ lastOp.ret[2] = None
                   /\ lastOp.ret[3] = None)

\* a grayscale object was decoded and written, and Cb was then read
C11_Witness ==
    /\ ~has_chrominance
    /\ decodeCalls >= 1
    /\ encodeCalls >= 1
    /\ lastOp.op = "get"
    /\ lastOp.field = "Cb"
    /\ lastOp.ret = <<None>>

\* the last operation called the decode bridge, which materialized qt
DecodedQt == lastOp.decodes > 0

\* C12 as stated: once a decode has materialized them, the object's
\* quantization tables have exactly 4 slots, whatever num_components is.
C12_FourSlots == DecodedQt => (IsArray(_qt) /\ _qt.shape[1] = NumQt)

\* C12 as amended: once a decode has materialized them, the object's
\* quantization tables have exactly num_components slots (1 or 3), each an
\* 8x8 table: the first num_components of the 4 tables the decode bridge
\* filled, entry by entry.
C12_CroppedSlots ==
    DecodedQt =>
        /\ IsArray(_qt)
        /\ _qt.shape = <<num_components, BlockSide, BlockSide>>
        /\ \A t \in 0..(num_components - 1),
              u \in 0..(BlockSide - 1), v \in 0..(BlockSide - 1) :
              At(_qt, <<t, u, v>>)
                  = At(content.qt, <<t, BlockSide * u + v>>)

\* a grayscale object was decoded by a read of an accessor
C12_Witness ==
    /\ DecodedQt
    /\ ~has_chrominance
    /\ lastOp.op = "get"
    /\ _qt.shape[1] = 1

\* the scratch file f was handed to a bridge
Consumed(f) == \E k \in 1..Len(f.events) : f.events[k] = "bridge"

\* C15: in read_dct and in write_dct, the scratch file is created, the
\* source bytes are written to it and flushed, and only then the bridge call
\* that consumes it is issued: create, write, flush, bridge call.
C15_FlushedBeforeBridge ==
    \A i \in 1..Len(scratch) :
        Consumed(scratch[i]) =>
            /\ Len(scratch[i].events) >= 4
            /\ SubSeq(scratch[i].events, 1, 4)
                   = <<"create", "write", "flush", "bridge">>

\* the scratch file f is closed and removed when the operation is left:
\* closed by the code, or finalized as its last reference went away
Released(f) == f.end \in {"closed", "dropped"}

\* C16: every scratch file created by read_dct or write_dct is released on
\* every exit path of the operation: return, bridge failure, failure of the
\* argument validation.
C16_ScratchReleased ==
    \A i \in 1..Len(scratch) : Released(scratch[i])

\* C19: whenever free() returns or fails, either all four members Y, Cb,
\* Cr, qt are released or all four are still held.
C19_NoPartialFree ==
    lastOp.op = "free" =>
        \/ \A f \in Fields : obj[f] = Deleted
        \/ \A f \in Fields : obj[f] # Deleted

\* the bridge argument a is a component tensor in the form (hb, wb, 64)
PresentComponent(a) ==
    /\ IsArray(a)
    /\ Len(a.shape) = 3
    /\ a.shape[3] = BlockLen
    /\ Len(a.data) = Size(a.shape)

\* C20: in every call of the encode bridge made by write_dct, Y, Cb and Cr
\* are all present on a colour object, and Y is present and Cb and Cr are
\* both absent on a grayscale object, whatever the caller has set.
C20_NoPartialComponents ==
    [][(Step("write_dct") /\ lastOp'.encodes = 1)
       => IF has_chrominance
          THEN /\ PresentComponent(encArgs'.Y)
               /\ PresentComponent(encArgs'.Cb)
               /\ PresentComponent(encArgs'.Cr)
          ELSE /\ PresentComponent(encArgs'.Y)
               /\ encArgs'.Cb = None
               /\ encArgs'.Cr = None]_vars

\* the caller had assigned a Cb tensor to a grayscale object, and write_dct
\* gave the encode bridge Y alone
C20_Witness ==
    /\ ~has_chrominance
    /\ IsArray(callerSet["Cb"])
    /\ _Cb = callerSet["Cb"]
    /\ lastOp.op = "write_dct"
    /\ lastOp.encodes = 1
    /\ IsArray(encArgs.Y)
    /\ encArgs.Cb = None

\* ------------------------------------------------------------------------
\* Properties of the layout converter (checked under SpecConv)
\* ------------------------------------------------------------------------
\* the input of the converter is a native tensor / a flat array
NativeInput == Len(cv_in.shape) = 4
FlatInput == Len(cv_in.shape) = 2

\* C9: layout round trip.  Converting a native tensor (bh, bw, 8, 8) of
\* 16-bit values to the flat layout and back gives the tensor again, shape
\* and every element; converting a flat array (8*bh, 8*bw) of values
\* representable in 16 bits to the native layout and back gives the flat
\* array again.
C9_LayoutRoundTrip ==
    cv_pc = 2 =>
        /\ cv_out.shape = cv_in.shape
        /\ \A p \in 1..Size(cv_in.shape) : cv_out.data[p] = cv_in.data[p]

\* a native tensor on a non-square block grid has gone to flat and back
C9_Witness ==
    /\ cv_pc = 2
    /\ NativeInput
    /\ cv_in.shape[1] # cv_in.shape[2]
    /\ Len(cv_mid.shape) = 2

\* the flat element at row 8r+u, column 8c+v equals the native element at
\* block (r, c), in-block position pos(u, v)
FlatPlacement(flat, T, swap) ==
    /\ flat.shape = <<T.shape[1] * BlockSide, T.shape[2] * BlockSide>>
    /\ \A r \in 0..(T.shape[1] - 1), c \in 0..(T.shape[2] - 1),
          u \in 0..(BlockSide - 1), v \in 0..(BlockSide - 1) :
          At(flat, <<BlockSide * r + u, BlockSide * c + v>>)
              = At(T, IF swap THEN <<r, c, v, u>> ELSE <<r, c, u, v>>)

\* C10 as stated: native-to-flat placement in natural order,
\* flat[8r+u][8c+v] = T[r][c][u][v] for every block (r, c) and u, v in 0..7.
C10_NaturalOrder ==
    (cv_pc >= 1 /\ NativeInput) => FlatPlacement(cv_mid, cv_in, FALSE)

\* C10 as amended: the flat array has shape (bh*8, bw*8), block (r, c)
\* occupies rows [8r, 8r+8) and columns [8c, 8c+8), and inside the patch
\* the block is transposed: flat[8r+u][8c+v] = T[r][c][v][u].
C10_TransposedOrder ==
    (cv_pc >= 1 /\ NativeInput) => FlatPlacement(cv_mid, cv_in, TRUE)

\* a native tensor on the largest, non-square grid has been converted
C10_Witness ==
    /\ cv_pc = 1
    /\ NativeInput
    /\ cv_in.shape[1] = MaxBlocksH
    /\ cv_in.shape[2] = MaxBlocksW
    /\ Len(cv_mid.shape) = 2

ConverterStep ==
    Step("to_jpegio") \/ Step("coef_arrays") \/ Step("quant_tables")

\* Y and qt, and Cb and Cr of a colour object, of the DCTJPEGio object hold
\* tensors
IoMaterialized ==
    /\ IsArray(io.Y)
    /\ IsArray(io.qt)
    /\ has_chrominance => (IsArray(io.Cb) /\ IsArray(io.Cr))

\* C17 as stated: to_jpegio and reads of coef_arrays and quant_tables call
\* neither the decode bridge nor the encode bridge, whatever the
\* materialization state of the object.
C17_ConverterNoBridge ==
    [][ConverterStep
       => (decodeCalls' = decodeCalls /\ encodeCalls' = encodeCalls)]_vars

\* C17 as amended: to_jpegio and reads of coef_arrays and quant_tables never
\* call the encode bridge and call the decode bridge at most once, through
\* the lazy accessor of an unset field; when the object they read is
\* materialized they call neither bridge.
C17_NoBridgeWhenMaterialized ==
    [][/\ ConverterStep
          => (encodeCalls' = encodeCalls /\ decodeCalls' <= decodeCalls + 1)
       /\ (Step("to_jpegio") /\ Materialized)
          => decodeCalls' = decodeCalls
       /\ ((Step("coef_arrays") \/ Step("quant_tables")) /\ IoMaterialized)
          => decodeCalls' = decodeCalls]_vars

\* a decoded colour object was converted and its coef_arrays read, with the
\* one decode of the explicit read_dct only
C17_Witness ==
    /\ lastOp.op = "coef_arrays"
    /\ lastOp.outcome = "ok"
    /\ Len(lastOp.ret) = 3
    /\ io.made
    /\ decodeCalls = 1
    /\ Materialized

\* the flat array a has the shape of the converted native tensor T
FlatShapeOf(a, T) ==
    IsArray(a) /\ a.shape = <<T.shape[1] * BlockSide, T.shape[2] * BlockSide>>

\* C18: on a materialized DCTJPEGio object with 1 or 3 components, a read
\* of coef_arrays succeeds and yields the three arrays [Y', Cb', Cr'], and a
\* read of quant_tables succeeds and yields exactly two tables, the tables
\* 0 and 1 of the object with their entries unchanged.
C18_InterchangeAccessors ==
    [][/\ (Step("coef_arrays") /\ IoMaterialized)
          => (/\ lastOp'.outcome = "ok"
              /\ Len(lastOp'.ret) = 3
              /\ FlatShapeOf(lastOp'.ret[1], io.Y))
       /\ (Step("quant_tables") /\ IoMaterialized)
          => (/\ lastOp'.outcome = "ok"
              /\ Len(lastOp'.ret) = 2
              /\ \A t \in 0..1,
                    u \in 0..(BlockSide - 1), v \in 0..(BlockSide - 1) :
                    At(lastOp'.ret[t + 1], <<u, v>>)
                        = At(io.qt, <<t, u, v>>))]_vars

\* ------------------------------------------------------------------------
\* Properties of the version selector (checked under SpecVer)
\* ------------------------------------------------------------------------
\* C13: version scopes follow stack discipline.  Entering a scope for a
\* version makes that version active, and leaving a scope makes active the
\* version that was active when that scope was entered, at every nesting
\* depth and whatever was set or entered in between.
C13_ScopeRestores ==
    [][/\ Len(ver_entered') > Len(ver_entered)
          => ver_active' = ver_last'.scope.next
       /\ Len(ver_entered') < Len(ver_entered)
          => ver_active' = ver_entered[Len(ver_entered)]]_vars

\* set 6b, enter 8d, enter 9d, leave the inner scope: 8d is active again
C13_Witness ==
    /\ ver_last = [op |-> "exit", scope |-> [prev |-> "8d", next |-> "9d"]]
    /\ ver_active = "8d"
    /\ Len(ver_scopes) = 1
    /\ ver_scopes[1] = [prev |-> "6b", next |-> "8d"]

====
